---- MODULE Spec2Model ----
(***************************************************************************)
(* Model of backend/index.js: the WebSocket relay between browser clients  *)
(* and the Gemini live API.                                                *)
(*                                                                         *)
(*   GeminiConnection  (index.js 22-129)  -> objs, socks and the operators *)
(*                                           setConfig, connect, send*,    *)
(*                                           close                         *)
(*   wss.on("connection") (index.js 131-206) -> Connection, ClientMessage, *)
(*                                           ClientClose, ClientError      *)
(*   connections (index.js 20)            -> connections                   *)
(*                                                                         *)
(* The `ws` package is the transport.  Its behaviour is modelled as the    *)
(* package documents it (ws 8): send() throws while the socket is          *)
(* CONNECTING, writes when it is OPEN, and drops the data without throwing *)
(* when it is CLOSING/CLOSED and no callback is given; close() on a        *)
(* CONNECTING socket aborts the handshake and emits "error".               *)
(*                                                                         *)
(* Node runs every callback to completion, and the continuation of an      *)
(* `await` runs as a microtask right after the callback that settled the   *)
(* promise, so every action below is one callback plus the continuations   *)
(* it releases.                                                            *)
(***************************************************************************)
EXTENDS Integers, Sequences, FiniteSets, TLC

\* ---------------------------------------------------------------- bounds
MaxFrames == 3        \* client frames handled, over all clients
MaxSessions == 2      \* GeminiConnection objects ever constructed
MaxSockets == 2       \* upstream WebSockets ever opened
MaxCalls == 4         \* method calls made by the caller in SpecSession
MaxCloseSignals == 2  \* "close" events of one client transport, in SpecDup

Clients == {"c1", "c2"}
NoClient == "none"

NoSession == 0        \* `let gemini;` / Map miss: undefined
NoSock == 0           \* this.ws = null

Voices == {"Puck"}
Prompts == {"You are helpful"}
Data == {"d1"}

\* parsedMessage.config of a config frame: an object, or missing
Configs == [voice : Voices, systemPrompt : Prompts]
NoConfig == [voice |-> "undefined", systemPrompt |-> "undefined"]

VARIABLES
    wsState,      \* client -> "NONE" | "OPEN" | "CLOSED": the client transport
    clientOut,    \* client -> frames written to the client transport
    gemini,       \* client -> the closure variable `gemini` of its handler
    connections,  \* the Map `connections`: client -> session, NoSession if absent
    recv,         \* client -> frames its "message" handler has been run on
    closes,       \* client -> times its "close" handler has been run
    lateSend,     \* client -> ws.send was called on its transport when not OPEN
    logged,       \* whether a client "error" handler has logged anything
    objs,         \* session id -> GeminiConnection object
    nObjs,        \* GeminiConnection objects constructed so far
    socks,        \* socket id -> upstream WebSocket and its connect() promise
    nSocks,       \* upstream WebSockets constructed so far
    crashed,      \* the process died on an uncaught exception
    calls,        \* SpecSession: method calls made so far
    lastResult    \* SpecSession: outcome of the last method call

vars == <<wsState, clientOut, gemini, connections, recv, closes, lateSend, logged,
          objs, nObjs, socks, nSocks, crashed, calls, lastResult>>

clientVars == <<wsState, clientOut, gemini, connections, recv, closes, lateSend, logged>>

SessionIds == 1..MaxSessions
SockIds == 1..MaxSockets

\* ------------------------------------------------------ GeminiConnection

\* constructor(): ws = null, config = null
\* (client: the handler that made it; closed: close() has been called)
NewGemini(c) ==
    [config |-> NoConfig, ws |-> NoSock, client |-> c, made |-> TRUE, closed |-> FALSE]

Unmade ==
    [config |-> NoConfig, ws |-> NoSock, client |-> NoClient, made |-> FALSE, closed |-> FALSE]

\* new WebSocket(GEMINI_URI) inside connect(), with the promise connect()
\* returns: owner is `this`, awaiter the handler suspended on the promise.
NewSock(s, c) ==
    [owner |-> s, readyState |-> "CONNECTING", sent |-> <<>>,
     promise |-> "pending", resolvedWith |-> 0, awaiter |-> c,
     ackFor |-> {}, subscribers |-> {}, received |-> 0, closeCalls |-> 0,
     opened |-> FALSE]

NoSockRec ==
    [owner |-> NoSession, readyState |-> "NONE", sent |-> <<>>,
     promise |-> "none", resolvedWith |-> 0, awaiter |-> NoClient,
     ackFor |-> {}, subscribers |-> {}, received |-> 0, closeCalls |-> 0,
     opened |-> FALSE]

\* (a setup message with a hard-coded voice)
SetupDefaultVoice(cfg) == <<"setup", "Kore", cfg.systemPrompt>>

\* the setup message built in the "open" listener
SetupMessage(cfg) == <<"setup", cfg.voice, cfg.systemPrompt>>

\* the envelopes of sendAudio, sendImage, sendText
AudioMessage(d) == <<"realtime_input", "audio/pcm", d>>
ImageMessage(d) == <<"realtime_input", "image/jpeg", d>>
TextMessage(d) == <<"client_content", "user", d>>

MediaKinds == {"audio", "image", "text"}

Envelope(kind, d) ==
    CASE kind = "audio" -> AudioMessage(d)
      [] kind = "image" -> ImageMessage(d)
      [] OTHER -> TextMessage(d)

IsMedia(m) == m[1] \in {"realtime_input", "client_content"}
IsSetup(m) == m[1] = "setup"

\* this.ws.send(...) throws: this.ws is null (TypeError), or the socket is
\* still CONNECTING (ws: "WebSocket is not open: readyState 0")
SendThrows(ss, k) == k = NoSock \/ ss[k].readyState = "CONNECTING"

\* (a send that puts the message at the head of the wire)
SockSendFront(ss, k, m) ==
    IF ss[k].readyState = "OPEN"
    THEN [ss EXCEPT ![k].sent = <<m>> \o @]
    ELSE ss

\* this.ws.send(...) when it does not throw: written if OPEN, dropped if not
SockSend(ss, k, m) ==
    IF ss[k].readyState = "OPEN"
    THEN [ss EXCEPT ![k].sent = Append(@, m)]
    ELSE ss

\* close(): if (this.ws) this.ws.close().  Closing a socket that is still
\* CONNECTING aborts the handshake: ws emits "error", whose listener rejects
\* the connect() promise.
GeminiClose(ss, s) ==
    LET k == objs[s].ws IN
    IF k = NoSock THEN ss
    ELSE [ss EXCEPT ![k].readyState = "CLOSED",
                    ![k].closeCalls = @ + 1,
                    ![k].promise = IF ss[k].readyState = "CONNECTING" /\ @ = "pending"
                                   THEN "rejected" ELSE @]

\* ------------------------------------------------------- client transport

ErrorFrame(msg) == <<"error", msg>>

\* ws.send(...) on the client transport: written if it is OPEN, dropped if not
ClientSend(out, st, c, frame) ==
    IF st[c] = "OPEN" THEN [out EXCEPT ![c] = Append(@, frame)] ELSE out

\* the same call seen from the caller: it was made on a transport that is
\* not OPEN
SendCalled(late, st, c) ==
    IF st[c] = "OPEN" THEN late ELSE [late EXCEPT ![c] = TRUE]

\* (a catch block that only logs)
CatchLogOnly(out, st, c, msg) == out

\* the catch block of the "message" handler
CatchSend(out, st, c, msg) == ClientSend(out, st, c, ErrorFrame(msg))

\* ---------------------------------------------------- inbound client frames

ConfigFrames == {[type |-> "config", config |-> cfg, data |-> ""] : cfg \in Configs \cup {NoConfig}}
MediaFrames == {[type |-> k, config |-> NoConfig, data |-> d] : k \in MediaKinds, d \in Data}
\* text that JSON.parse rejects; an object such as {foo:"bar"} whose type is
\* missing or not one of the four
OtherFrames == {[type |-> k, config |-> NoConfig, data |-> ""] : k \in {"unparseable", "unknown"}}
Frames == ConfigFrames \cup MediaFrames \cup OtherFrames

\* ----------------------------------------------------- upstream events

AudioPart == [inlineData |-> "a1", text |-> ""]
TextPart == [inlineData |-> "", text |-> "hi"]
EmptyPart == [inlineData |-> "", text |-> ""]
\* a message with no serverContent, such as the service's setupComplete
NoContent == [serverContent |-> FALSE, modelTurn |-> FALSE, parts |-> <<>>, turnComplete |-> FALSE]
Turn(ps, b) == [serverContent |-> TRUE, modelTurn |-> TRUE, parts |-> ps, turnComplete |-> b]
\* the upstream messages the service is taken to send
Events == {NoContent,
           [serverContent |-> TRUE, modelTurn |-> FALSE, parts |-> <<>>, turnComplete |-> TRUE],
           Turn(<<TextPart>>, TRUE),
           Turn(<<AudioPart, TextPart>>, FALSE),
           Turn(<<TextPart, AudioPart>>, TRUE),
           Turn(<<AudioPart, EmptyPart>>, FALSE)}

\* the for loop of the onMessage callback
RECURSIVE TranslateParts(_)
TranslateParts(ps) ==
    IF ps = <<>> THEN <<>>
    ELSE LET p == Head(ps)
             f == IF p.inlineData # "" THEN << <<"audio", p.inlineData>> >>
                  ELSE IF p.text # "" THEN << <<"text", p.text>> >>
                  ELSE <<>>
         IN f \o TranslateParts(Tail(ps))

\* the onMessage callback: the frames it sends for one upstream event
Translate(ev) ==
    (IF ev.serverContent /\ ev.modelTurn THEN TranslateParts(ev.parts) ELSE <<>>)
    \o (IF ev.serverContent /\ ev.turnComplete THEN << <<"turn_complete", "true">> >> ELSE <<>>)

\* `if (gemini)` at the end of the connection callback: the subscription is
\* wired only if the handler already holds a session
Subscribes(g) == g # NoSession

\* ------------------------------------------------------------------ Init

Init ==
    /\ wsState = [c \in Clients |-> "NONE"]
    /\ clientOut = [c \in Clients |-> <<>>]
    /\ gemini = [c \in Clients |-> NoSession]
    /\ connections = [c \in Clients |-> NoSession]
    /\ recv = [c \in Clients |-> 0]
    /\ closes = [c \in Clients |-> 0]
    /\ lateSend = [c \in Clients |-> FALSE]
    /\ logged = FALSE
    /\ objs = [s \in SessionIds |-> Unmade]
    /\ nObjs = 0
    /\ socks = [k \in SockIds |-> NoSockRec]
    /\ nSocks = 0
    /\ crashed = FALSE
    /\ calls = 0
    /\ lastResult = "none"

RECURSIVE SumOver(_, _)
SumOver(f, S) ==
    IF S = {} THEN 0
    ELSE LET x == CHOOSE y \in S : TRUE IN f[x] + SumOver(f, S \ {x})

\* ------------------------------------------------- wss.on("connection")

\* The connection callback: clientId, `let gemini`, the listeners, and the
\* subscription, which is wired on the session held at this moment.
Connection(c) ==
    /\ ~crashed
    /\ wsState[c] = "NONE"
    /\ wsState' = [wsState EXCEPT ![c] = "OPEN"]
    /\ gemini' = [gemini EXCEPT ![c] = NoSession]
    /\ socks' = IF Subscribes(gemini'[c])
                THEN [socks EXCEPT ![objs[gemini'[c]].ws].subscribers = @ \cup {c}]
                ELSE socks
    /\ UNCHANGED <<clientOut, connections, recv, closes, lateSend, logged, objs, nObjs,
                   nSocks, crashed, calls, lastResult>>

\* ws.on("message"), config branch up to the await: a new GeminiConnection
\* is assigned to `gemini`, configured, and connect() opens its socket.
ConfigBranch(c, f) ==
    LET s == nObjs + 1
        k == nSocks + 1
    IN /\ nObjs < MaxSessions
       /\ nSocks < MaxSockets
       /\ gemini' = [gemini EXCEPT ![c] = s]
       /\ objs' = [objs EXCEPT ![s] = [NewGemini(c) EXCEPT !.config = f.config, !.ws = k]]
       /\ nObjs' = s
       /\ socks' = [socks EXCEPT ![k] = NewSock(s, c)]
       /\ nSocks' = k
       /\ UNCHANGED clientOut

\* ws.on("message"), audio / image / text branches and the catch block
MediaBranch(c, f) ==
    LET g == gemini[c]
        k == IF g = NoSession THEN NoSock ELSE objs[g].ws
    IN /\ IF g = NoSession
          THEN /\ clientOut' = CatchSend(clientOut, wsState, c, "TypeError")
               /\ UNCHANGED socks
          ELSE IF SendThrows(socks, k)
          THEN /\ clientOut' = CatchSend(clientOut, wsState, c, "WebSocket is not open")
               /\ UNCHANGED socks
          ELSE /\ socks' = SockSend(socks, k, Envelope(f.type, f.data))
               /\ UNCHANGED clientOut
       /\ UNCHANGED <<gemini, objs, nObjs, nSocks>>

\* ws.on("message") for a frame that is none of the four: JSON.parse throws,
\* or no branch matches and nothing happens
OtherBranch(c, f) ==
    /\ clientOut' = IF f.type = "unparseable"
                    THEN CatchSend(clientOut, wsState, c, "SyntaxError")
                    ELSE clientOut
    /\ UNCHANGED <<gemini, objs, nObjs, socks, nSocks>>

ClientMessage(c, f) ==
    /\ ~crashed
    /\ wsState[c] = "OPEN"
    /\ SumOver(recv, Clients) < MaxFrames
    /\ recv' = [recv EXCEPT ![c] = @ + 1]
    /\ CASE f.type = "config" -> ConfigBranch(c, f)
         [] f.type \in MediaKinds -> MediaBranch(c, f)
         [] OTHER -> OtherBranch(c, f)
    /\ UNCHANGED <<wsState, connections, closes, lateSend, logged, crashed, calls, lastResult>>

\* ws.on("close"): close and forget the registered session, if any.  When
\* that session's socket is still CONNECTING the abort rejects its connect()
\* promise, and the suspended handler's catch block sends to the client,
\* whose transport is in state st.
CloseHandler(c, st) ==
    LET s == connections[c]
        k == IF s = NoSession THEN NoSock ELSE objs[s].ws
        aborted == k # NoSock /\ socks[k].readyState = "CONNECTING"
                   /\ socks[k].promise = "pending" /\ socks[k].awaiter # NoClient
    IN /\ socks' = IF s = NoSession THEN socks ELSE GeminiClose(socks, s)
       /\ objs' = IF s = NoSession THEN objs ELSE [objs EXCEPT ![s].closed = TRUE]
       /\ connections' = [connections EXCEPT ![c] = NoSession]
       /\ clientOut' = IF aborted
                       THEN CatchSend(clientOut, st, socks[k].awaiter,
                                      "WebSocket was closed before the connection was established")
                       ELSE clientOut
       /\ lateSend' = IF aborted THEN SendCalled(lateSend, st, socks[k].awaiter) ELSE lateSend

ClientClose(c) ==
    /\ ~crashed
    /\ wsState[c] = "OPEN"
    /\ wsState' = [wsState EXCEPT ![c] = "CLOSED"]
    /\ closes' = [closes EXCEPT ![c] = @ + 1]
    /\ CloseHandler(c, wsState')
    /\ UNCHANGED <<gemini, recv, logged, nObjs, nSocks, crashed, calls, lastResult>>

\* a second "close" signal for a transport that is already closed
DuplicateClose(c) ==
    /\ ~crashed
    /\ wsState[c] = "CLOSED"
    /\ closes[c] < MaxCloseSignals
    /\ closes' = [closes EXCEPT ![c] = @ + 1]
    /\ CloseHandler(c, wsState)
    /\ UNCHANGED <<wsState, gemini, recv, logged, nObjs, nSocks, crashed, calls, lastResult>>

\* (an "error" listener that also runs the close handler)
ClientErrorCloses(c) ==
    /\ ~crashed
    /\ wsState[c] = "OPEN"
    /\ logged' = TRUE
    /\ CloseHandler(c, wsState)
    /\ UNCHANGED <<wsState, gemini, recv, closes, nObjs, nSocks, crashed, calls, lastResult>>

\* ws.on("error"): console.error only
ClientError(c) ==
    /\ ~crashed
    /\ wsState[c] = "OPEN"
    /\ logged' = TRUE
    /\ UNCHANGED <<wsState, clientOut, gemini, connections, recv, closes, lateSend, objs,
                   nObjs, socks, nSocks, crashed, calls, lastResult>>

\* ------------------------------------------------- upstream socket events

\* (a config check that never fires)
ConfigAlwaysSet(s) == FALSE

\* `if (!this.config)` in the "open" listener
ConfigMissing(s) == objs[s].config = NoConfig

\* "open" on socket t (the listener connect() registered): the config check,
\* the setup message on this.ws, then the one-shot "message" listener on
\* this.ws that resolves this connect()'s promise.  With no config the
\* reject is followed by a TypeError on this.config.voice, thrown out of the
\* listener: an uncaught exception, which ends the process.
UpstreamOpen(t) ==
    LET s == socks[t].owner
        cur == objs[s].ws
        opened == [socks EXCEPT ![t].readyState = "OPEN", ![t].opened = TRUE]
    IN /\ ~crashed
       /\ t <= nSocks
       /\ socks[t].readyState = "CONNECTING"
       /\ IF ConfigMissing(s)
          THEN /\ socks' = [opened EXCEPT ![t].promise = "rejected"]
               /\ crashed' = TRUE
          ELSE IF SendThrows(opened, cur)
          THEN /\ socks' = opened
               /\ crashed' = TRUE
          ELSE /\ socks' = [SockSend(opened, cur, SetupMessage(objs[s].config))
                              EXCEPT ![cur].ackFor = @ \cup {t}]
               /\ UNCHANGED crashed
       /\ UNCHANGED <<clientVars, objs, nObjs, nSocks, calls, lastResult>>

\* connect() promises the one-shot listeners of socket t resolve
Settled(t) == {p \in socks[t].ackFor : socks[p].promise = "pending"}

\* after `await gemini.connect()`: connections.set(clientId, gemini), with
\* `gemini` read when the handler resumes
Register(conns, woken) ==
    [c \in Clients |-> IF c \in woken THEN gemini[c] ELSE conns[c]]

RECURSIVE SendAll(_, _, _, _)
SendAll(out, st, c, frames) ==
    IF frames = <<>> THEN out
    ELSE SendAll(ClientSend(out, st, c, Head(frames)), st, c, Tail(frames))

RECURSIVE Forward(_, _, _, _)
Forward(out, st, subs, ev) ==
    IF subs = {} THEN out
    ELSE LET c == CHOOSE x \in subs : TRUE
         IN Forward(SendAll(out, st, c, Translate(ev)), st, subs \ {c}, ev)

\* position of the next inbound message in a socket's stream: 1 for the
\* first, 2 for every later one
NextPos(n) == IF n = 0 THEN 1 ELSE 2

\* "message" on socket t: the one-shot listeners resolve their promises with
\* it (resolvedWith holds its position in the socket's inbound stream), the
\* onMessage callbacks wired on the socket translate it, and the handlers
\* suspended on the resolved promises resume.
UpstreamMessage(t, ev) ==
    LET n == NextPos(socks[t].received)
        settle == Settled(t)
        woken == {socks[p].awaiter : p \in settle} \ {NoClient}
    IN /\ ~crashed
       /\ t <= nSocks
       /\ socks[t].readyState = "OPEN"
       /\ socks' = [k \in SockIds |->
                      LET a == IF k \in settle
                               THEN [socks[k] EXCEPT !.promise = "resolved", !.resolvedWith = n]
                               ELSE socks[k]
                      IN IF k = t THEN [a EXCEPT !.received = n, !.ackFor = {}] ELSE a]
       /\ clientOut' = Forward(clientOut, wsState, socks[t].subscribers, ev)
       /\ lateSend' = [c \in Clients |->
                         \/ lateSend[c]
                         \/ /\ c \in socks[t].subscribers
                            /\ Translate(ev) # <<>>
                            /\ wsState[c] # "OPEN"]
       /\ connections' = Register(connections, woken)
       /\ UNCHANGED <<wsState, gemini, recv, closes, logged, objs, nObjs, nSocks,
                      crashed, calls, lastResult>>

\* (an "error" listener that does not reject)
UpstreamErrorNoReject(t) ==
    /\ ~crashed
    /\ t <= nSocks
    /\ socks[t].readyState \in {"CONNECTING", "OPEN"}
    /\ socks' = [socks EXCEPT ![t].readyState = "CLOSED"]
    /\ UNCHANGED <<clientVars, objs, nObjs, nSocks, crashed, calls, lastResult>>

\* "error" on socket t: ws closes the socket; the listener of line 69
\* rejects the promise, and a handler suspended on it runs its catch block.
UpstreamError(t) ==
    LET pending == socks[t].promise = "pending"
        c == socks[t].awaiter
    IN /\ ~crashed
       /\ t <= nSocks
       /\ socks[t].readyState \in {"CONNECTING", "OPEN"}
       /\ socks' = [socks EXCEPT ![t].readyState = "CLOSED",
                                  ![t].promise = IF pending THEN "rejected" ELSE @]
       /\ clientOut' = IF pending /\ c # NoClient
                       THEN CatchSend(clientOut, wsState, c, "UpstreamError")
                       ELSE clientOut
       /\ lateSend' = IF pending /\ c # NoClient
                      THEN SendCalled(lateSend, wsState, c)
                      ELSE lateSend
       /\ UNCHANGED <<wsState, gemini, connections, recv, closes, logged, objs, nObjs,
                      nSocks, crashed, calls, lastResult>>

\* the service closes an open socket without an error; no listener is
\* registered for "close"
UpstreamClose(t) ==
    /\ ~crashed
    /\ t <= nSocks
    /\ socks[t].readyState = "OPEN"
    /\ socks' = [socks EXCEPT ![t].readyState = "CLOSED"]
    /\ UNCHANGED <<clientVars, objs, nObjs, nSocks, crashed, calls, lastResult>>

\* ------------------------------------- GeminiConnection, called directly

\* new GeminiConnection()
ApiNew ==
    /\ ~crashed /\ calls < MaxCalls
    /\ nObjs < MaxSessions
    /\ nObjs' = nObjs + 1
    /\ objs' = [objs EXCEPT ![nObjs + 1] = NewGemini(NoClient)]
    /\ calls' = calls + 1
    /\ lastResult' = "ok"
    /\ UNCHANGED <<clientVars, socks, nSocks, crashed>>

\* setConfig(config)
ApiSetConfig(s, cfg) ==
    /\ ~crashed /\ calls < MaxCalls
    /\ s <= nObjs
    /\ objs' = [objs EXCEPT ![s].config = cfg]
    /\ calls' = calls + 1
    /\ lastResult' = "ok"
    /\ UNCHANGED <<clientVars, nObjs, socks, nSocks, crashed>>

\* connect(): a new WebSocket is assigned to this.ws, whatever it held
ApiConnect(s) ==
    LET k == nSocks + 1
    IN /\ ~crashed /\ calls < MaxCalls
       /\ s <= nObjs
       /\ nSocks < MaxSockets
       /\ socks' = [socks EXCEPT ![k] = NewSock(s, NoClient)]
       /\ nSocks' = k
       /\ objs' = [objs EXCEPT ![s].ws = k]
       /\ calls' = calls + 1
       /\ lastResult' = "ok"
       /\ UNCHANGED <<clientVars, nObjs, crashed>>

\* sendAudio(data), sendImage(data), sendText(text)
ApiSend(s, kind, d) ==
    LET k == objs[s].ws
    IN /\ ~crashed /\ calls < MaxCalls
       /\ s <= nObjs
       /\ IF SendThrows(socks, k)
          THEN /\ lastResult' = "threw"
               /\ UNCHANGED socks
          ELSE /\ lastResult' = "ok"
               /\ socks' = SockSend(socks, k, Envelope(kind, d))
       /\ calls' = calls + 1
       /\ UNCHANGED <<clientVars, objs, nObjs, nSocks, crashed>>

\* close()
ApiClose(s) ==
    /\ ~crashed /\ calls < MaxCalls
    /\ s <= nObjs
    /\ socks' = GeminiClose(socks, s)
    /\ objs' = [objs EXCEPT ![s].closed = TRUE]
    /\ calls' = calls + 1
    /\ lastResult' = "ok"
    /\ UNCHANGED <<clientVars, nObjs, nSocks, crashed>>

\* ------------------------------------------------------- specifications

\* the client whose handler Spec follows (the handlers share nothing but the
\* Map, each under its own key; the second client stays unconnected in Spec)
First == {"c1"}

Upstream ==
    \/ \E t \in SockIds : UpstreamOpen(t)
    \/ \E t \in SockIds, ev \in Events : UpstreamMessage(t, ev)
    \/ \E t \in SockIds : UpstreamError(t)
    \/ \E t \in SockIds : UpstreamClose(t)

Handler ==
    \/ \E c \in Clients, f \in Frames : ClientMessage(c, f)
    \/ \E c \in Clients : ClientClose(c)
    \/ \E c \in Clients : ClientError(c)

Next ==
    \/ \E c \in First : Connection(c)
    \/ Handler
    \/ Upstream

\* the relay server with one client connection
Spec == Init /\ [][Next]_vars

NextDup ==
    \/ Next
    \/ \E c \in Clients : DuplicateClose(c)

\* the relay server when a client transport may signal "close" again
SpecDup == Init /\ [][NextDup]_vars

NextSession ==
    \/ ApiNew
    \/ \E s \in SessionIds, cfg \in Configs : ApiSetConfig(s, cfg)
    \/ \E s \in SessionIds : ApiConnect(s)
    \/ \E s \in SessionIds, kind \in MediaKinds, d \in Data : ApiSend(s, kind, d)
    \/ \E s \in SessionIds : ApiClose(s)
    \/ Upstream

NextTwo ==
    \/ \E c \in Clients : Connection(c)
    \/ Handler
    \/ Upstream

\* the relay server with two client connections
SpecTwo == Init /\ [][NextTwo]_vars

\* GeminiConnection objects driven directly through their methods
SpecSession == Init /\ [][NextSession]_vars

\* ------------------------------------------------------------ properties

IsErrorFrame(fr) == fr[1] = "error"

\* exactly one frame, an error frame, was written to client c in this step
OneErrorFrameTo(c) ==
    /\ Len(clientOut'[c]) = Len(clientOut[c]) + 1
    /\ SubSeq(clientOut'[c], 1, Len(clientOut[c])) = clientOut[c]
    /\ IsErrorFrame(clientOut'[c][Len(clientOut'[c])])

\* the client whose handler created the session that owns socket k
ClientOf(k) == objs[socks[k].owner].client

HasMedia(k) == \E i \in 1..Len(socks[k].sent) : IsMedia(socks[k].sent[i])

\* the frames C1 expects for an upstream event: one per part, in order,
\* then turn_complete iff the event's flag is set
RECURSIVE ClaimedParts(_)
ClaimedParts(ps) ==
    IF ps = <<>> THEN <<>>
    ELSE << IF Head(ps).inlineData # "" THEN <<"audio", Head(ps).inlineData>>
            ELSE <<"text", Head(ps).text>> >> \o ClaimedParts(Tail(ps))
ClaimedFrames(ev) ==
    ClaimedParts(ev.parts) \o (IF ev.turnComplete THEN << <<"turn_complete", "true">> >> ELSE <<>>)

\* events all of whose parts are inline-data or text parts
TypedEvents == {ev \in Events : \A i \in 1..Len(ev.parts) : ev.parts[i] # EmptyPart}

\* C1: an upstream event that a session created for a client receives after
\* its setup acknowledgment makes the handler send that client one frame per
\* part, in the order of the parts, then turn_complete iff the event's flag
\* is set.
C1_EventForwarded ==
    [][\A t \in SockIds, ev \in TypedEvents :
         (/\ UpstreamMessage(t, ev)
          /\ socks[t].promise = "resolved"
          /\ ClientOf(t) \in Clients
          /\ wsState[ClientOf(t)] = "OPEN")
         => clientOut'[ClientOf(t)] = clientOut[ClientOf(t)] \o ClaimedFrames(ev)]_vars

\* C2: a config frame from a client that already has a session is answered
\* with an error frame and leaves the first session alone: no new session or
\* socket, `gemini` and the registry unchanged, the sockets unchanged.
C2_DuplicateConfigRejected ==
    [][\A c \in Clients, f \in ConfigFrames :
         (ClientMessage(c, f) /\ gemini[c] # NoSession)
         => /\ OneErrorFrameTo(c)
            /\ UNCHANGED <<nObjs, nSocks, gemini, connections, socks>>]_vars

\* C3: a media frame from a client that has sent no config frame makes the
\* handler send exactly one error frame to that client; nothing is sent
\* upstream, no session is created, and the client transport stays open.
C3_MediaBeforeConfig ==
    [][\A c \in Clients, f \in MediaFrames :
         (ClientMessage(c, f) /\ gemini[c] = NoSession)
         => /\ OneErrorFrameTo(c)
            /\ UNCHANGED <<socks, objs, nObjs, nSocks, gemini, connections>>
            /\ wsState'[c] = "OPEN"]_vars

C3_Witness ==
    /\ recv["c1"] = 2
    /\ gemini["c1"] = NoSession
    /\ wsState["c1"] = "OPEN"
    /\ clientOut["c1"] = <<ErrorFrame("TypeError"), ErrorFrame("TypeError")>>

\* C4: no media frame is on an upstream socket's wire before that socket has
\* received the setup acknowledgment (its first inbound message).
C4_NoMediaBeforeAck ==
    \A k \in SockIds : HasMedia(k) => socks[k].received >= 1

\* the session registered for client c, and its socket
Registered(c) == connections[c]
RegisteredSock(c) == IF Registered(c) = NoSession THEN NoSock ELSE objs[Registered(c)].ws

\* the close handler of client c has closed a session before
HasClosedOne(c) ==
    \E k \in SockIds : socks[k].owner # NoSession /\ ClientOf(k) = c /\ socks[k].closeCalls >= 1

\* C5: the close handler of a client with a registered session closes that
\* session and removes the entry, once: a second close signal makes no
\* further upstream close call and no further registry change.
C5_CloseOnce ==
    [][\A c \in Clients :
         /\ (ClientClose(c) /\ Registered(c) # NoSession)
            => /\ connections'[c] = NoSession
               /\ socks'[RegisteredSock(c)].closeCalls = socks[RegisteredSock(c)].closeCalls + 1
               /\ socks'[RegisteredSock(c)].readyState = "CLOSED"
         /\ (DuplicateClose(c) /\ HasClosedOne(c))
            => UNCHANGED <<socks, connections>>]_vars

\* C6: once a client transport is closed, every upstream socket opened for
\* that client is closed.
C6_NoOrphanUpstream ==
    \A c \in Clients : wsState[c] = "CLOSED" =>
        \A k \in SockIds : (socks[k].owner # NoSession /\ ClientOf(k) = c)
                              => socks[k].readyState = "CLOSED"

\* C7: when the connect() a config frame started fails, the handler sends
\* the client one error frame with the failure message and the registry
\* holds no entry for that client.
C7_ConnectFailure ==
    [][\A t \in SockIds :
         (/\ UpstreamError(t)
          /\ socks[t].promise = "pending"
          /\ socks[t].awaiter \in Clients
          /\ wsState[socks[t].awaiter] = "OPEN")
         => /\ clientOut'[socks[t].awaiter]
                  = Append(clientOut[socks[t].awaiter], ErrorFrame("UpstreamError"))
            /\ connections'[socks[t].awaiter] = NoSession]_vars

\* C8: every client frame that is not a well-formed config, audio, image or
\* text frame makes the handler send one error frame to the client, and the
\* client transport stays open.
C8_MalformedFrame ==
    [][\A c \in Clients, f \in OtherFrames :
         ClientMessage(c, f) => (OneErrorFrameTo(c) /\ wsState'[c] = "OPEN")]_vars

Setups(k) == Cardinality({i \in 1..Len(socks[k].sent) : IsSetup(socks[k].sent[i])})

\* what holds of the socket of one connect() in every state
ConnectInv(k) ==
    /\ Setups(k) <= 1
    /\ ~socks[k].opened => socks[k].sent = <<>>
    /\ (socks[k].opened /\ objs[socks[k].owner].config # NoConfig)
       => /\ socks[k].sent # <<>>
          /\ socks[k].sent[1][1] = "setup"
          /\ socks[k].sent[1][2] = objs[socks[k].owner].config.voice
          /\ socks[k].sent[1][3] = objs[socks[k].owner].config.systemPrompt
    /\ socks[k].promise = "resolved"
       => (socks[k].resolvedWith = 1 /\ socks[k].received >= 1 /\ Setups(k) = 1)
    /\ (socks[k].received >= 1 /\ Setups(k) = 1) => socks[k].promise # "pending"

\* C9: each connect() sends exactly one setup message, when its socket
\* opens, carrying the configured voice and system prompt; its promise
\* resolves with the first message received after that and with no later
\* one; and the session becomes ready at most once.
C9_SetupHandshake ==
    /\ [](\A k \in SockIds : k <= nSocks => ConnectInv(k))
    /\ [][\A k \in SockIds :
            /\ socks[k].promise \in {"resolved", "rejected"}
               => (socks'[k].promise = socks[k].promise
                   /\ socks'[k].resolvedWith = socks[k].resolvedWith)
            /\ Setups(k) = 1 => socks'[k].sent[1] = socks[k].sent[1] /\ Setups(k)' = 1]_vars

C9_Witness ==
    \E k \in SockIds :
        /\ socks[k].promise = "resolved"
        /\ socks[k].received = 2
        /\ socks[k].sent = << <<"setup", "Puck", "You are helpful">> >>

\* C10: after close() the session is closed for good: a further close()
\* changes nothing, and every later sendAudio, sendImage, sendText or
\* connect fails with an error, transmits nothing and opens no socket.
C10_CloseIsFinal ==
    [][\A s \in SessionIds :
         (s <= nObjs /\ objs[s].closed) =>
            /\ \A kind \in MediaKinds, d \in Data :
                  ApiSend(s, kind, d) => (lastResult' = "threw" /\ UNCHANGED <<socks, nSocks>>)
            /\ ApiConnect(s) => (lastResult' = "threw" /\ UNCHANGED <<socks, nSocks>>)
            /\ ApiClose(s) =>
                  \A k \in SockIds : /\ socks'[k].readyState = socks[k].readyState
                                     /\ socks'[k].sent = socks[k].sent
                                     /\ socks'[k].promise = socks[k].promise]_vars

\* C11: connect() on a session whose config was never set fails: from the
\* moment its socket opens the connect() promise is rejected, no setup
\* message is ever sent on the socket, and the promise is never resolved.
C11_ConfigMissing ==
    \A k \in SockIds :
        (k <= nSocks /\ objs[socks[k].owner].config = NoConfig)
        => /\ Setups(k) = 0
           /\ socks[k].promise # "resolved"
           /\ socks[k].opened => socks[k].promise = "rejected"

C11_Witness ==
    \E k \in SockIds :
        /\ k <= nSocks
        /\ objs[socks[k].owner].config = NoConfig
        /\ socks[k].opened
        /\ socks[k].promise = "rejected"
        /\ socks[k].sent = <<>>

\* C12: an upstream error before or during the setup handshake rejects the
\* connect() promise and leaves the socket closed; from then on the promise
\* stays rejected, the socket stays closed and nothing is transmitted on it.
C12_HandshakeError ==
    [][\A t \in SockIds :
         /\ (UpstreamError(t) /\ socks[t].promise = "pending")
            => (socks'[t].promise = "rejected" /\ socks'[t].readyState = "CLOSED")
         /\ (socks[t].promise = "rejected" /\ socks[t].readyState = "CLOSED")
            => /\ socks'[t].promise = "rejected"
               /\ socks'[t].readyState = "CLOSED"
               /\ socks'[t].sent = socks[t].sent]_vars

C12_Witness ==
    \E k \in SockIds :
        /\ socks[k].promise = "rejected"
        /\ socks[k].readyState = "CLOSED"
        /\ socks[k].sent = <<SetupMessage(objs[socks[k].owner].config)>>
        /\ gemini["c1"] = socks[k].owner
        /\ recv["c1"] = 3
        /\ clientOut["c1"] = <<ErrorFrame("UpstreamError")>>

\* the frames whose handling the spec counts as an error: a malformed frame,
\* a config frame when the handler already holds a session, a media frame
\* with no session or one whose upstream send throws
ErrorCase(c, f) ==
    \/ f \in OtherFrames
    \/ f \in ConfigFrames /\ gemini[c] # NoSession
    \/ f \in MediaFrames /\ (gemini[c] = NoSession \/ SendThrows(socks, objs[gemini[c]].ws))

\* C13: no error in handling a client frame closes the client transport: the
\* transport leaves OPEN only in the client's own close, and every such error
\* (also a failed connect()) puts exactly one error frame on the transport.
C13_ErrorsReported ==
    [][\A c \in Clients :
         /\ (wsState[c] = "OPEN" /\ wsState'[c] # "OPEN") => ClientClose(c)
         /\ \A f \in Frames :
               (ClientMessage(c, f) /\ ErrorCase(c, f))
               => (OneErrorFrameTo(c) /\ wsState'[c] = "OPEN")
         /\ \A t \in SockIds :
               (/\ UpstreamError(t)
                /\ socks[t].promise = "pending"
                /\ socks[t].awaiter = c
                /\ wsState[c] = "OPEN")
               => (OneErrorFrameTo(c) /\ wsState'[c] = "OPEN")]_vars

\* the session the handler of client c holds is CONNECTING or READY: it has
\* a socket that is not closed and a connect() promise that did not fail
SessionLive(c) ==
    /\ gemini[c] # NoSession
    /\ objs[gemini[c]].ws # NoSock
    /\ socks[objs[gemini[c]].ws].readyState \in {"CONNECTING", "OPEN"}
    /\ socks[objs[gemini[c]].ws].promise \in {"pending", "resolved"}

\* C14: after every step the registry has an entry for a client iff that
\* client's session is CONNECTING or READY, and an entry disappears only in
\* the client's close, which closes the socket of the session it held.
C14_RegistryTracksSession ==
    [][\A c \in Clients :
         /\ (connections'[c] # NoSession) <=> SessionLive(c)'
         /\ (connections[c] # NoSession /\ connections'[c] = NoSession)
            => (ClientClose(c) /\ socks'[RegisteredSock(c)].readyState = "CLOSED")]_vars

\* this step is an event of client a: one of its frames, its close, its
\* error event, or an upstream event on a socket opened for it
ActsFor(a) ==
    \/ \E f \in Frames : ClientMessage(a, f)
    \/ ClientClose(a)
    \/ ClientError(a)
    \/ \E t \in SockIds :
          /\ socks[t].owner # NoSession
          /\ ClientOf(t) = a
          /\ \/ UpstreamOpen(t)
             \/ \E ev \in Events : UpstreamMessage(t, ev)
             \/ UpstreamError(t)
             \/ UpstreamClose(t)

\* this step leaves everything of client b as it was: its registry entry,
\* the session its handler holds, its sessions and their sockets, and the
\* frames sent to it
Untouched(b) ==
    /\ connections'[b] = connections[b]
    /\ gemini'[b] = gemini[b]
    /\ clientOut'[b] = clientOut[b]
    /\ wsState'[b] = wsState[b]
    /\ \A s \in SessionIds : objs[s].client = b => objs'[s] = objs[s]
    /\ \A k \in SockIds :
          (socks[k].owner # NoSession /\ ClientOf(k) = b) => socks'[k] = socks[k]

\* C15: an event of client A (a frame, its close, its error event, an
\* upstream event of one of its sessions) leaves every other connected
\* client B untouched, B's registry entry, sessions and outbound frames
\* included, and leaves the process that serves B running.
C15_ClientsIndependent ==
    [][\A a \in Clients, b \in Clients :
         (a # b /\ wsState[b] = "OPEN" /\ ActsFor(a))
         => (Untouched(b) /\ crashed' = crashed)]_vars

\* C16: the media frames on an upstream socket are the client's frames in
\* the order the handler received them: a media frame handled while the
\* session's socket is open is appended to that socket's wire as its
\* envelope, and the wire changes in no other way than by one message
\* appended, a media message only in the step that handles its frame.  The
\* promise of the config frame's connect() may still be pending.
C16_SendOrder ==
    [][\A k \in SockIds :
         /\ \A c \in Clients, f \in MediaFrames :
               (/\ ClientMessage(c, f)
                /\ gemini[c] # NoSession
                /\ objs[gemini[c]].ws = k
                /\ socks[k].readyState = "OPEN")
               => socks'[k].sent = Append(socks[k].sent, Envelope(f.type, f.data))
         /\ socks'[k].sent # socks[k].sent
            => /\ Len(socks'[k].sent) = Len(socks[k].sent) + 1
               /\ SubSeq(socks'[k].sent, 1, Len(socks[k].sent)) = socks[k].sent
               /\ IsMedia(socks'[k].sent[Len(socks'[k].sent)])
                  => \E c \in Clients, f \in MediaFrames :
                        /\ ClientMessage(c, f)
                        /\ gemini[c] = socks[k].owner
                        /\ socks'[k].sent[Len(socks'[k].sent)] = Envelope(f.type, f.data)]_vars

C16_Witness ==
    \E k \in SockIds :
        /\ socks[k].promise = "pending"
        /\ gemini["c1"] = socks[k].owner
        /\ socks[k].sent = <<SetupMessage(objs[socks[k].owner].config),
                             AudioMessage("d1"), ImageMessage("d1")>>

\* C17: an error event of a client transport changes nothing but the log:
\* the transport, the handler's session, the registry, every session and
\* socket, and the frames sent to every client stay as they were.
C17_ClientErrorOnlyLogs ==
    [][\A c \in Clients :
         ClientError(c)
         => /\ logged'
            /\ UNCHANGED <<wsState, clientOut, lateSend, gemini, connections, objs, nObjs,
                           socks, nSocks, crashed>>]_vars

C17_Witness ==
    /\ logged
    /\ wsState["c1"] = "OPEN"
    /\ connections["c1"] # NoSession
    /\ socks[RegisteredSock("c1")].readyState = "OPEN"
    /\ clientOut["c1"] = <<>>

\* C18: once the close handler of a client has run, the registry holds no
\* entry for that client, whatever completes afterwards.
C18_NoEntryAfterClose ==
    \A c \in Clients : wsState[c] = "CLOSED" => connections[c] = NoSession

\* C20: a registry entry of a client is the session its handler holds (the
\* one media frames go to), and that session's own connect() has resolved.
C20_RegisteredIsCurrent ==
    \A c \in Clients :
        connections[c] # NoSession
        => /\ connections[c] = gemini[c]
           /\ socks[RegisteredSock(c)].promise = "resolved"

\* C19: the handler never sends a frame to a client transport that has
\* closed: no ws.send call is made on a transport that is not OPEN.
C19_NoSendAfterClose ==
    \A c \in Clients : ~lateSend[c]

====
